---- MODULE Spec2Model ----
(***************************************************************************)
(* Model lifecycle of the two translation services of marketplace-services *)
(*   huggingface-mt-service/main.py  (service = "hf")                      *)
(*   bergamot-service/main.py        (service = "bergamot")                *)
(* A process runs exactly one of the two programs.  Every handler is an    *)
(* async def run by the one event loop of uvicorn.run(app): a handler      *)
(* keeps the loop until it finishes or reaches an await, and only then     *)
(* does another handler take a step.  Handlers are modelled statement      *)
(* group by statement group; CanRun states which of them holds the loop.   *)
(* Strings that the code formats or parses (pair keys, preload tokens,     *)
(* language codes) are sequences of atoms: a language code, "-" or " ".    *)
(***************************************************************************)
EXTENDS Integers, Sequences, FiniteSets, TLC

\* ---------------------------------------------------------------- bounds
NumWorkers == 2
MaxRequests == 3
MaxPreload == 2
MaxBatch == 2

\* ------------------------------------------------------ program constants
\* truncation length given to the tokenizer (max_length=512)
MAX_LENGTH == 512

None == "None"
NoHandle == <<>>

\* huggingface-mt-service: pair key "src-tgt" -> model name
MODEL_MAPPING ==
    <<"en", "-", "hi">> :> "Helsinki-NLP/opus-mt-en-hi"
    @@ <<"en", "-", "es">> :> "Helsinki-NLP/opus-mt-en-es"
    @@ <<"en", "-", "fr">> :> "Helsinki-NLP/opus-mt-en-fr"
    @@ <<"en", "-", "de">> :> "Helsinki-NLP/opus-mt-en-de"
    @@ <<"en", "-", "it">> :> "Helsinki-NLP/opus-mt-en-it"
    @@ <<"en", "-", "pt">> :> "Helsinki-NLP/opus-mt-en-pt"
    @@ <<"en", "-", "nl">> :> "Helsinki-NLP/opus-mt-en-nl"
    @@ <<"en", "-", "ru">> :> "Helsinki-NLP/opus-mt-en-ru"
    @@ <<"en", "-", "zh">> :> "Helsinki-NLP/opus-mt-en-zh"
    @@ <<"en", "-", "ja">> :> "Helsinki-NLP/opus-mt-en-jap"
    @@ <<"en", "-", "ko">> :> "Helsinki-NLP/opus-mt-en-ko"
    @@ <<"en", "-", "ar">> :> "Helsinki-NLP/opus-mt-en-ar"
    @@ <<"en", "-", "tr">> :> "Helsinki-NLP/opus-mt-en-tr"
    @@ <<"en", "-", "vi">> :> "Helsinki-NLP/opus-mt-en-vi"
    @@ <<"en", "-", "th">> :> "Helsinki-NLP/opus-mt-en-th"
    @@ <<"en", "-", "id">> :> "Helsinki-NLP/opus-mt-en-id"
    @@ <<"en", "-", "pl">> :> "Helsinki-NLP/opus-mt-en-pl"
    @@ <<"en", "-", "he">> :> "Helsinki-NLP/opus-mt-en-he"
    @@ <<"en", "-", "mul">> :> "Helsinki-NLP/opus-mt-en-mul"
    @@ <<"hi", "-", "en">> :> "Helsinki-NLP/opus-mt-hi-en"
    @@ <<"es", "-", "en">> :> "Helsinki-NLP/opus-mt-es-en"
    @@ <<"fr", "-", "en">> :> "Helsinki-NLP/opus-mt-fr-en"
    @@ <<"de", "-", "en">> :> "Helsinki-NLP/opus-mt-de-en"
    @@ <<"it", "-", "en">> :> "Helsinki-NLP/opus-mt-it-en"
    @@ <<"pt", "-", "en">> :> "Helsinki-NLP/opus-mt-pt-en"
    @@ <<"nl", "-", "en">> :> "Helsinki-NLP/opus-mt-nl-en"
    @@ <<"ru", "-", "en">> :> "Helsinki-NLP/opus-mt-ru-en"
    @@ <<"zh", "-", "en">> :> "Helsinki-NLP/opus-mt-zh-en"
    @@ <<"ja", "-", "en">> :> "Helsinki-NLP/opus-mt-jap-en"
    @@ <<"ko", "-", "en">> :> "Helsinki-NLP/opus-mt-ko-en"
    @@ <<"ar", "-", "en">> :> "Helsinki-NLP/opus-mt-ar-en"
    @@ <<"tr", "-", "en">> :> "Helsinki-NLP/opus-mt-tr-en"
    @@ <<"es", "-", "fr">> :> "Helsinki-NLP/opus-mt-es-fr"
    @@ <<"fr", "-", "es">> :> "Helsinki-NLP/opus-mt-fr-es"
    @@ <<"es", "-", "it">> :> "Helsinki-NLP/opus-mt-es-it"
    @@ <<"it", "-", "es">> :> "Helsinki-NLP/opus-mt-it-es"
    @@ <<"es", "-", "pt">> :> "Helsinki-NLP/opus-mt-es-pt"
    @@ <<"pt", "-", "es">> :> "Helsinki-NLP/opus-mt-pt-es"

\* Indian languages that use the multilingual model
MULTILINGUAL_TARGETS ==
    { <<"ta">>, <<"te">>, <<"bn">>, <<"mr">>, <<"gu">>, <<"kn">>, <<"ml">>, <<"pa">>, <<"or">> }

\* bergamot-service: (source, target) -> model url (url = <<stem, extension>>)
MODEL_REGISTRY ==
    << <<"en">>, <<"es">> >> :> <<"https://storage.googleapis.com/bergamot-models-sandbox/prod/ende/model.enes.intgemm.alphas.bin", ".gz">>
    @@ << <<"en">>, <<"de">> >> :> <<"https://storage.googleapis.com/bergamot-models-sandbox/prod/ende/model.ende.intgemm.alphas.bin", ".gz">>
    @@ << <<"en">>, <<"fr">> >> :> <<"https://storage.googleapis.com/bergamot-models-sandbox/prod/enfr/model.enfr.intgemm.alphas.bin", ".gz">>
    @@ << <<"en">>, <<"pt">> >> :> <<"https://storage.googleapis.com/bergamot-models-sandbox/prod/enpt/model.enpt.intgemm.alphas.bin", ".gz">>
    @@ << <<"en">>, <<"it">> >> :> <<"https://storage.googleapis.com/bergamot-models-sandbox/prod/enit/model.enit.intgemm.alphas.bin", ".gz">>
    @@ << <<"en">>, <<"nl">> >> :> <<"https://storage.googleapis.com/bergamot-models-sandbox/prod/ennl/model.ennl.intgemm.alphas.bin", ".gz">>
    @@ << <<"en">>, <<"ru">> >> :> <<"https://storage.googleapis.com/bergamot-models-sandbox/prod/enru/model.enru.intgemm.alphas.bin", ".gz">>
    @@ << <<"en">>, <<"pl">> >> :> <<"https://storage.googleapis.com/bergamot-models-sandbox/prod/enpl/model.enpl.intgemm.alphas.bin", ".gz">>
    @@ << <<"en">>, <<"cs">> >> :> <<"https://storage.googleapis.com/bergamot-models-sandbox/prod/encs/model.encs.intgemm.alphas.bin", ".gz">>
    @@ << <<"en">>, <<"et">> >> :> <<"https://storage.googleapis.com/bergamot-models-sandbox/prod/enet/model.enet.intgemm.alphas.bin", ".gz">>
    @@ << <<"es">>, <<"en">> >> :> <<"https://storage.googleapis.com/bergamot-models-sandbox/prod/esen/model.esen.intgemm.alphas.bin", ".gz">>
    @@ << <<"de">>, <<"en">> >> :> <<"https://storage.googleapis.com/bergamot-models-sandbox/prod/deen/model.deen.intgemm.alphas.bin", ".gz">>
    @@ << <<"fr">>, <<"en">> >> :> <<"https://storage.googleapis.com/bergamot-models-sandbox/prod/fren/model.fren.intgemm.alphas.bin", ".gz">>
    @@ << <<"pt">>, <<"en">> >> :> <<"https://storage.googleapis.com/bergamot-models-sandbox/prod/pten/model.pten.intgemm.alphas.bin", ".gz">>
    @@ << <<"it">>, <<"en">> >> :> <<"https://storage.googleapis.com/bergamot-models-sandbox/prod/iten/model.iten.intgemm.alphas.bin", ".gz">>
    @@ << <<"nl">>, <<"en">> >> :> <<"https://storage.googleapis.com/bergamot-models-sandbox/prod/nlen/model.nlen.intgemm.alphas.bin", ".gz">>
    @@ << <<"ru">>, <<"en">> >> :> <<"https://storage.googleapis.com/bergamot-models-sandbox/prod/ruen/model.ruen.intgemm.alphas.bin", ".gz">>
    @@ << <<"pl">>, <<"en">> >> :> <<"https://storage.googleapis.com/bergamot-models-sandbox/prod/plen/model.plen.intgemm.alphas.bin", ".gz">>
    @@ << <<"cs">>, <<"en">> >> :> <<"https://storage.googleapis.com/bergamot-models-sandbox/prod/csen/model.csen.intgemm.alphas.bin", ".gz">>
    @@ << <<"et">>, <<"en">> >> :> <<"https://storage.googleapis.com/bergamot-models-sandbox/prod/eten/model.eten.intgemm.alphas.bin", ".gz">>

\* ------------------------------------------------------- inputs explored
\* language pairs carried by requests to the hf service: a registry pair, two
\* targets of the multilingual model, and a pair the registry does not have
HfReqPairs ==
    { << <<"en">>, <<"es">> >>, << <<"en">>, <<"ta">> >>,
      << <<"en">>, <<"bn">> >>, << <<"xx">>, <<"en">> >> }

\* and to the bergamot service: two registry pairs and one it does not have
BgReqPairs ==
    { << <<"en">>, <<"es">> >>, << <<"es">>, <<"en">> >>,
      << <<"en">>, <<"ta">> >> }

\* request texts and the number of tokens the tokenizer makes of each
Texts == {"a", "b"}
TokenLen == ("a" :> 3) @@ ("b" :> 600)

\* numbers of texts of a batch body: around the limits of the two services
BatchSizes == {0, 1, 2, 50, 51, 100, 101}

\* tokens of the PRELOAD_MODELS list (the environment value split at ",")
PreloadTokens ==
    { <<"en", "-", "es">>,              \* valid in both services
      <<" ", "en", "-", "ta">>,         \* needs strip; multilingual in hf only
      <<"xx", "-", "yy">>,              \* well formed, not in a registry
      <<"en", "es">>,                   \* no "-"
      <<>>,                             \* empty token
      <<"en", "-", "es", "-", "en">> }  \* three parts

RECURSIVE SeqsUpTo(_, _)
SeqsUpTo(S, n) ==
    IF n = 0 THEN { <<>> }
    ELSE LET prev == SeqsUpTo(S, n - 1)
         IN  prev \cup { Append(s, x) : s \in prev, x \in S }

\* ----------------------------------------------------- string operations
\* dict.get(k)
Get(d, k) == IF k \in DOMAIN d THEN d[k] ELSE None

\* f"{source_lang}-{target_lang}"
fmt_pair_key(source_lang, target_lang) == source_lang \o <<"-">> \o target_lang

\* str.strip()
RECURSIVE lstrip(_)
lstrip(s) == IF s # <<>> /\ Head(s) = " " THEN lstrip(Tail(s)) ELSE s
RECURSIVE rstrip(_)
rstrip(s) ==
    IF s # <<>> /\ s[Len(s)] = " " THEN rstrip(SubSeq(s, 1, Len(s) - 1)) ELSE s
strip(s) == rstrip(lstrip(s))

\* str.split("-"): the parts between the "-" atoms
RECURSIVE split_acc(_, _, _)
split_acc(s, cur, acc) ==
    IF s = <<>> THEN Append(acc, cur)
    ELSE IF Head(s) = "-" THEN split_acc(Tail(s), <<>>, Append(acc, cur))
    ELSE split_acc(Tail(s), Append(cur, Head(s)), acc)
split(s) == split_acc(s, <<>>, <<>>)

\* "-" in pair
has_dash(s) == \E i \in 1..Len(s) : s[i] = "-"

\* str.split("-", 1): <<text before the first "-", text after it>>
split1(s) ==
    IF has_dash(s)
    THEN LET i == CHOOSE j \in 1..Len(s) :
                      s[j] = "-" /\ \A k \in 1..(j - 1) : s[k] # "-"
         IN  << SubSeq(s, 1, i - 1), SubSeq(s, i + 1, Len(s)) >>
    ELSE << s >>

\* url.endswith('.gz')
endswith_gz(url) == url[Len(url)] = ".gz"

\* ------------------------------------------------------- pair resolution
\* (variant: the exact-pair lookup is made first, the rule only on a miss)
get_model_name_tests_exact_first(source_lang, target_lang) ==
    IF fmt_pair_key(source_lang, target_lang) \in DOMAIN MODEL_MAPPING
    THEN <<"exact">>
    ELSE <<"exact", "multilingual">>

\* the tests get_model_name evaluates, in the order it evaluates them: the
\* multilingual rule, and the exact-pair lookup when the rule did not apply
get_model_name_tests(source_lang, target_lang) ==
    IF source_lang = <<"en">> /\ target_lang \in MULTILINGUAL_TARGETS
    THEN <<"multilingual">>
    ELSE <<"multilingual", "exact">>

\* (variant: the multilingual rule is missing)
get_model_name_exact_only(source_lang, target_lang) ==
    Get(MODEL_MAPPING, fmt_pair_key(source_lang, target_lang))

\* huggingface-mt-service get_model_name
get_model_name(source_lang, target_lang) ==
    IF source_lang = <<"en">> /\ target_lang \in MULTILINGUAL_TARGETS
    THEN Get(MODEL_MAPPING, <<"en", "-", "mul">>)
    ELSE Get(MODEL_MAPPING, fmt_pair_key(source_lang, target_lang))

\* bergamot-service: pair in MODEL_REGISTRY
in_registry(source_lang, target_lang) ==
    <<source_lang, target_lang>> \in DOMAIN MODEL_REGISTRY

\* ------------------------------------------------------------ translation
Min(a, b) == IF a < b THEN a ELSE b

\* what the engine makes of one tokenized row: the text as the model of the
\* handle renders it, from at most MAX_LENGTH tokens
translate_text(text, handle) ==
    [ model |-> handle[1], source |-> text, tokens |-> Min(TokenLen[text], MAX_LENGTH) ]

\* (variant: the rows come back in reverse order)
translate_batch_reversed(texts, handle) ==
    [ i \in 1..Len(texts) |-> translate_text(texts[Len(texts) + 1 - i], handle) ]

\* huggingface-mt-service translate_batch: one row per text, decoded in order
translate_batch(texts, handle) ==
    [ i \in 1..Len(texts) |-> translate_text(texts[i], handle) ]

\* bergamot-service placeholder rendering f"[{s}->{t}] {text}"
translate_with_bergamot(text, source_lang, target_lang) ==
    <<"[">> \o source_lang \o <<"->">> \o target_lang \o <<"]", " ", text>>

translate_with_ctranslate2(text, source_lang, target_lang) ==
    <<"[">> \o source_lang \o <<"->">> \o target_lang \o <<"]", " ", text>>

\* ------------------------------------------------------------------ state
VARIABLES
    service,                \* which main.py this process runs
    BERGAMOT_AVAILABLE,     \* bergamot-service import probes
    CTRANSLATE2_AVAILABLE,
    PRELOAD_MODELS,         \* preload tokens read from the environment
    loaded_models,          \* hf cache: model name -> handle
    loaded_translators,     \* bergamot cache: pair key -> handle
    model_files,            \* bergamot: directories holding model.bin
    blocked_dirs,           \* bergamot: paths at which mkdir raises
    pc,                     \* position of the lifespan and of each request
    req,                    \* the request a process is serving
    local,                  \* local variables of the running handler
    resp,                   \* response sent for the last request
    pre_i,                  \* lifespan: index of the preload token in hand
    pre_log,                \* lifespan: what happened to each token so far
    load_count,             \* probe: loads started per identifier
    fetch_count,            \* probe: http fetches started per pair key
    nreq                    \* requests received so far

config == <<service, BERGAMOT_AVAILABLE, CTRANSLATE2_AVAILABLE, PRELOAD_MODELS,
            blocked_dirs>>
caches == <<loaded_models, loaded_translators>>
vars == <<service, BERGAMOT_AVAILABLE, CTRANSLATE2_AVAILABLE, PRELOAD_MODELS,
          loaded_models, loaded_translators, model_files, blocked_dirs, pc, req,
          local, resp, pre_i, pre_log, load_count, fetch_count, nreq>>

LIFESPAN == 0
Workers == 1..NumWorkers
Procs == {LIFESPAN} \cup Workers

\* the None that download_model returns in place of a model directory
NoDir == <<>>

NoReq == [kind |-> "none", source_lang |-> <<>>, target_lang |-> <<>>, texts |-> <<>>,
          cancelled_at |-> None]
NoLocal == [model_name |-> None, pair_key |-> <<>>, handle |-> NoHandle,
            ord |-> 0, miss |-> FALSE, acquires |-> 0, error |-> None,
            result |-> NoDir, used |-> NoHandle, leaving |-> <<>>]
NoResp == [status |-> 0]

Count(f, k) == IF k \in DOMAIN f THEN f[k] ELSE 0
\* (variant: the mapping is rebuilt from the one new item)
Put_replacing_all(f, k, v) == (k :> v)

\* f[k] = v
Put(f, k, v) == (k :> v) @@ f

\* the cache of the running service and the identifier a process works on
Cache == IF service = "hf" THEN loaded_models ELSE loaded_translators
Ident(p) == IF service = "hf" THEN local[p].model_name ELSE local[p].pair_key

\* positions at which a handler has given the event loop back
Suspended == {"idle", "responded", "yielded", "dl_start", "dl_get", "dl_read",
              "dl_exit"}

\* (variant: handlers preempt one another between any two statement groups)
CanRun_preemptive(p) == TRUE

\* p may take its next step: the event loop runs one handler at a time, so
\* p runs only while no other handler is between two awaits
CanRun(p) == \A q \in Procs \ {p} : pc[q] \in Suspended

\* preload lists: every list of 1..MaxPreload tokens (split(",") never returns
\* an empty list)
PreloadLists == SeqsUpTo(PreloadTokens, MaxPreload) \ { <<>> }

\* preload lists under which the serving phase is explored: nothing to
\* preload (the one empty token of "".split(",")) and one pair
ServingPreloadLists ==
    { << <<>> >>,
      << <<"en", "-", "es">> >> }

\* MODEL_CACHE_DIR, as a path; a model directory is the pair key below it
MODEL_CACHE_DIR == <<".">>

\* what the cache directory, which outlives the process, holds at start:
\* nothing; model.bin of en-es left by an earlier run; a regular file named
\* en-es; a regular file where the cache directory itself should be.
\* Each is <<directories holding model.bin, paths at which mkdir raises>>.
DisksAtStart ==
    IF service = "hf"
    THEN { <<{}, {}>> }
    ELSE { <<{}, {}>>,
           <<{<<"en", "-", "es">>}, {}>>,
           <<{}, {<<"en", "-", "es">>}>>,
           <<{}, {MODEL_CACHE_DIR}>> }

InitWith(preload_lists) ==
    /\ service \in {"hf", "bergamot"}
    /\ BERGAMOT_AVAILABLE \in (IF service = "bergamot" THEN BOOLEAN ELSE {FALSE})
    /\ CTRANSLATE2_AVAILABLE \in (IF service = "bergamot" THEN BOOLEAN ELSE {FALSE})
    /\ PRELOAD_MODELS \in preload_lists
    /\ loaded_models = << >>
    /\ loaded_translators = << >>
    /\ \E disk \in DisksAtStart :
         /\ model_files = disk[1]
         /\ blocked_dirs = disk[2]
    /\ pc = [p \in Procs |-> IF p # LIFESPAN THEN "idle"
                             ELSE IF service = "bergamot" THEN "startup"
                             ELSE "pre_loop"]
    /\ req = [p \in Procs |-> NoReq]
    /\ local = [p \in Procs |-> NoLocal]
    /\ resp = [p \in Procs |-> NoResp]
    /\ pre_i = 1
    /\ pre_log = << >>
    /\ load_count = << >>
    /\ fetch_count = << >>
    /\ nreq = 0

Init == InitWith(ServingPreloadLists)
StartupInit == InitWith(PreloadLists)

\* ---------------------------------------------------- request arrival
RequestsOf(kind) ==
    CASE kind \in {"translate", "batch", "download"} ->
           { [kind |-> kind, source_lang |-> pr[1], target_lang |-> pr[2], texts |-> <<>>,
              cancelled_at |-> None] :
               pr \in (IF service = "hf" THEN HfReqPairs ELSE BgReqPairs) }
      [] kind \in {"readyz", "health", "languages"} ->
           { [kind |-> kind, source_lang |-> <<>>, target_lang |-> <<>>, texts |-> <<>>,
              cancelled_at |-> None] }

\* BatchTranslationRequest.texts: Field(..., min_items=1, max_items=50) in
\* huggingface-mt-service, max_items=100 in bergamot-service
min_items == 1
max_items == IF service = "hf" THEN 50 ELSE 100

\* the check of the number of texts made when the body is parsed
valid_items(n) == min_items <= n /\ n <= max_items

\* a body of n texts
body_of(n) == [i \in 1..n |-> "a"]

\* the texts of a request body: one text for translate, 1..MaxBatch for batch.
\* Nothing reads them before the translation step, which is where the model
\* draws them.
BodiesOf(kind) ==
    IF kind = "translate" THEN { <<t>> : t \in Texts }
    ELSE { b \in SeqsUpTo(Texts, MaxBatch) : valid_items(Len(b)) }
         \cup { body_of(n) : n \in { m \in BatchSizes : valid_items(m) } }

\* the server takes request r and starts its handler as process w; requests
\* are served once the lifespan has yielded
Accept(w, r) ==
    /\ pc[LIFESPAN] = "yielded"
    /\ pc[w] = "idle"
    /\ nreq < MaxRequests
    /\ CanRun(w)
    /\ req' = [req EXCEPT ![w] = r]
    /\ nreq' = nreq + 1

\* the handler returns or raises HTTPException: the response goes out
\* (resp is what the client side holds of the exchange until Close; clients
\* are observed one at a time, which leaves out no state of the service
\* because Close is always possible)
Respond(w, r) ==
    /\ \A v \in Workers \ {w} : pc[v] # "responded"
    /\ resp' = [resp EXCEPT ![w] = r]
    /\ pc' = [pc EXCEPT ![w] = "responded"]

\* the exchange is over: the handler's frame and the request are gone
Close(w) ==
    /\ pc[w] = "responded"
    /\ pc' = [pc EXCEPT ![w] = "idle"]
    /\ req' = [req EXCEPT ![w] = NoReq]
    /\ local' = [local EXCEPT ![w] = NoLocal]
    /\ resp' = [resp EXCEPT ![w] = NoResp]
    /\ UNCHANGED <<config, caches, model_files, pre_i, pre_log, load_count,
                   fetch_count, nreq>>

\* the client of w's request goes away (it disconnects, or its own timeout
\* expires) before the answer: no handler awaits, tests the connection or
\* runs under a timeout between its entry and its answer, so the handler is
\* not told and keeps its place; cancelled_at records where it was
request_cancelled(w) ==
    /\ pc[w] \notin {"idle", "responded"}
    /\ resp[w].status = 0
    /\ req[w].cancelled_at = None
    /\ req' = [req EXCEPT ![w].cancelled_at = pc[w]]
    /\ UNCHANGED <<config, caches, model_files, pc, local, resp, pre_i, pre_log,
                   load_count, fetch_count, nreq>>

\* a batch body with too few or too many texts never reaches the handler:
\* the framework answers 422 from the model's validation
batch_validation_error(w) ==
    /\ \E r \in RequestsOf("batch"), n \in BatchSizes :
         /\ ~ valid_items(n)
         /\ Accept(w, [r EXCEPT !.texts = body_of(n)])
         /\ Respond(w, [status |-> 422])
    /\ UNCHANGED <<config, caches, model_files, local, pre_i, pre_log, load_count,
                   fetch_count>>

\* ------------------------------------------------------------- lifespan
\* the preload loop is done with the token in hand
preload_next(outcome) ==
    /\ pc' = [pc EXCEPT ![LIFESPAN] = "pre_loop"]
    /\ pre_i' = pre_i + 1
    /\ pre_log' = Append(pre_log, outcome)

\* hf lifespan: except Exception around load_model: log, go on
lifespan_except(p) ==
    /\ preload_next("failed")
    /\ UNCHANGED resp

\* hf lifespan: one turn of "for pair in PRELOAD_MODELS", up to the call of
\* load_model; after the last token the lifespan yields and serving starts
hf_lifespan_loop ==
    /\ service = "hf"
    /\ pc[LIFESPAN] = "pre_loop"
    /\ CanRun(LIFESPAN)
    /\ IF pre_i > Len(PRELOAD_MODELS)
       THEN /\ pc' = [pc EXCEPT ![LIFESPAN] = "yielded"]
            /\ UNCHANGED <<req, local, pre_i, pre_log>>
       ELSE LET pair == strip(PRELOAD_MODELS[pre_i])
                parts == split(pair)
                model_name == IF pair # <<>> /\ Len(parts) = 2
                              THEN get_model_name(parts[1], parts[2])
                              ELSE None
            IN  IF model_name # None
                THEN /\ req' = [req EXCEPT ![LIFESPAN] =
                                  [kind |-> "preload", source_lang |-> parts[1],
                                   target_lang |-> parts[2], texts |-> <<>>,
                                   cancelled_at |-> None]]
                     /\ local' = [local EXCEPT ![LIFESPAN] =
                                  [NoLocal EXCEPT !.model_name = model_name]]
                     /\ pc' = [pc EXCEPT ![LIFESPAN] = "lm_check"]
                     /\ UNCHANGED <<pre_i, pre_log>>
                ELSE /\ preload_next("skipped")
                     /\ UNCHANGED <<req, local>>
    /\ UNCHANGED <<config, caches, model_files, resp, load_count, fetch_count, nreq>>

\* hf lifespan: load_model returned
hf_lifespan_loaded ==
    /\ service = "hf"
    /\ pc[LIFESPAN] = "acquired"
    /\ CanRun(LIFESPAN)
    /\ preload_next("loaded")
    /\ UNCHANGED <<config, caches, model_files, req, local, resp, load_count,
                   fetch_count, nreq>>

\* ------------------------------------------------ hf: exception handlers
\* the except clause that catches what load_model or the translation raised
\* (variant: the handler answers a failure with the untranslated input)
hf_except_masked(p, e) ==
    /\ local' = [local EXCEPT ![p].error = e]
    /\ CASE req[p].kind = "preload" -> lifespan_except(p)
         [] req[p].kind \in {"translate", "batch"} ->
                Respond(p, [status |-> 200, model |-> local[p].model_name])
                /\ UNCHANGED <<pre_i, pre_log>>
         [] req[p].kind = "readyz" ->
                Respond(p, [status |-> 503]) /\ UNCHANGED <<pre_i, pre_log>>

\* "except Exception as e": e is what load_model ("load") or the translation
\* ("translate") raised; the lifespan logs it, translate and
\* translate_batch_endpoint raise HTTPException(500), readiness falls through
\* to HTTPException(503)
hf_except(p, e) ==
    /\ local' = [local EXCEPT ![p].error = e]
    /\ CASE req[p].kind = "preload" -> lifespan_except(p)
         [] req[p].kind \in {"translate", "batch"} ->
                Respond(p, [status |-> 500]) /\ UNCHANGED <<pre_i, pre_log>>
         [] req[p].kind = "readyz" ->
                Respond(p, [status |-> 503]) /\ UNCHANGED <<pre_i, pre_log>>

\* ------------------------------------------------------- hf: load_model
\* (variant: the cache is never consulted)
cache_hit_never(model_name) == FALSE

\* model_name in loaded_models
cache_hit(model_name) == model_name \in DOMAIN loaded_models

\* (variant: an identifier whose load was tried before and is not cached is
\* refused without a new load)
lm_check_remembers_failure(p) ==
    /\ service = "hf"
    /\ pc[p] = "lm_check"
    /\ CanRun(p)
    /\ LET model_name == local[p].model_name
       IN  IF cache_hit(model_name)
           THEN /\ local' = [local EXCEPT ![p].handle = loaded_models[model_name],
                                          ![p].acquires = @ + 1]
                /\ pc' = [pc EXCEPT ![p] = "acquired"]
                /\ UNCHANGED <<load_count, resp, pre_i, pre_log>>
           ELSE IF Count(load_count, model_name) > 0
           THEN /\ hf_except(p, "load")
                /\ UNCHANGED load_count
           ELSE /\ load_count' = Put(load_count, model_name,
                                     Count(load_count, model_name) + 1)
                /\ local' = [local EXCEPT ![p].miss = TRUE,
                                          ![p].ord = Count(load_count, model_name) + 1,
                                          ![p].acquires = @ + 1]
                /\ pc' = [pc EXCEPT ![p] = "lm_load"]
                /\ UNCHANGED <<resp, pre_i, pre_log>>
    /\ UNCHANGED <<config, caches, model_files, req, fetch_count, nreq>>

\* if model_name in loaded_models: return loaded_models[model_name]
\* otherwise the load starts
lm_check(p) ==
    /\ service = "hf"
    /\ pc[p] = "lm_check"
    /\ CanRun(p)
    /\ LET model_name == local[p].model_name
       IN  IF cache_hit(model_name)
           THEN /\ local' = [local EXCEPT ![p].handle = loaded_models[model_name],
                                          ![p].acquires = @ + 1]
                /\ pc' = [pc EXCEPT ![p] = "acquired"]
                /\ UNCHANGED load_count
           ELSE /\ load_count' = Put(load_count, model_name,
                                     Count(load_count, model_name) + 1)
                /\ local' = [local EXCEPT ![p].miss = TRUE,
                                          ![p].ord = Count(load_count, model_name) + 1,
                                          ![p].acquires = @ + 1]
                /\ pc' = [pc EXCEPT ![p] = "lm_load"]
    /\ UNCHANGED <<config, caches, model_files, req, resp, pre_i, pre_log,
                   fetch_count, nreq>>

\* the handle a load builds: the model and tokenizer objects of that load
new_handle(ident, ord) == <<ident, ord>>

\* (variant: the loaded model is stored under the target language of the
\* request instead of the model name)
lm_load_keyed_by_target(p) ==
    /\ service = "hf"
    /\ pc[p] = "lm_load"
    /\ CanRun(p)
    /\ \E outcome \in {"ok", "tokenizer_raises", "model_raises"} :
         IF outcome = "ok"
         THEN LET h == new_handle(local[p].model_name, local[p].ord)
              IN  /\ loaded_models' =
                         Put(loaded_models,
                             IF req[p].target_lang = <<>> THEN local[p].model_name
                             ELSE req[p].target_lang[1], h)
                  /\ local' = [local EXCEPT ![p].handle = h]
                  /\ pc' = [pc EXCEPT ![p] = "acquired"]
                  /\ UNCHANGED <<resp, pre_i, pre_log>>
         ELSE /\ hf_except(p, "load")
              /\ UNCHANGED loaded_models
    /\ UNCHANGED <<config, loaded_translators, model_files, req, load_count,
                   fetch_count, nreq>>

\* the rest of load_model after the cache miss:
\*   tokenizer = MarianTokenizer.from_pretrained(model_name)
\*   model = MarianMTModel.from_pretrained(model_name); to(device); eval()
\*   loaded_models[model_name] = (model, tokenizer); return model, tokenizer
\* The two constructions take the time of the load and touch no shared
\* state; they end with the cache write, or one of them raises.
lm_load(p) ==
    /\ service = "hf"
    /\ pc[p] = "lm_load"
    /\ CanRun(p)
    /\ \E outcome \in {"ok", "tokenizer_raises", "model_raises"} :
         IF outcome = "ok"
         THEN LET h == new_handle(local[p].model_name, local[p].ord)
              IN  /\ loaded_models' = Put(loaded_models, local[p].model_name, h)
                  /\ local' = [local EXCEPT ![p].handle = h]
                  /\ pc' = [pc EXCEPT ![p] = "acquired"]
                  /\ UNCHANGED <<resp, pre_i, pre_log>>
         ELSE /\ hf_except(p, "load")
              /\ UNCHANGED loaded_models
    /\ UNCHANGED <<config, loaded_translators, model_files, req, load_count,
                   fetch_count, nreq>>

\* ------------------------------------------------- hf: request handlers
\* translate / translate_batch_endpoint: get_model_name, 400 when it is None
hf_resolve(w) ==
    /\ service = "hf"
    /\ \E kind \in {"translate", "batch"} : \E r \in RequestsOf(kind) :
         /\ Accept(w, r)
         /\ LET model_name == get_model_name(r.source_lang, r.target_lang)
            IN  IF model_name = None
                THEN /\ Respond(w, [status |-> 400])
                     /\ UNCHANGED local
                ELSE /\ local' = [local EXCEPT ![w].model_name = model_name]
                     /\ pc' = [pc EXCEPT ![w] = "lm_check"]
                     /\ UNCHANGED resp
    /\ UNCHANGED <<config, caches, model_files, pre_i, pre_log, load_count,
                   fetch_count>>

\* (variant: a failed translation drops the model from the cache)
hf_translate_evicts(w) ==
    /\ service = "hf"
    /\ pc[w] = "acquired"
    /\ req[w].kind = "translate"
    /\ CanRun(w)
    /\ \E texts \in BodiesOf("translate"), ok \in BOOLEAN :
         /\ req' = [req EXCEPT ![w].texts = texts]
         /\ IF ok
            THEN /\ Respond(w, [status |-> 200,
                                translated_text |-> translate_text(texts[1], local[w].handle),
                                source_lang |-> req[w].source_lang,
                                target_lang |-> req[w].target_lang,
                                model |-> local[w].model_name])
                 /\ UNCHANGED <<local, pre_i, pre_log, caches>>
            ELSE /\ hf_except(w, "translate")
                 /\ loaded_models' = [m \in DOMAIN loaded_models \ {local[w].model_name}
                                        |-> loaded_models[m]]
                 /\ UNCHANGED loaded_translators
    /\ UNCHANGED <<config, model_files, load_count, fetch_count, nreq>>

\* translate: translate_text on the acquired handle, then the response
hf_translate(w) ==
    /\ service = "hf"
    /\ pc[w] = "acquired"
    /\ req[w].kind = "translate"
    /\ CanRun(w)
    /\ \E texts \in BodiesOf("translate"), ok \in BOOLEAN :
         /\ req' = [req EXCEPT ![w].texts = texts]
         /\ IF ok
            THEN /\ Respond(w, [status |-> 200,
                                translated_text |-> translate_text(texts[1], local[w].handle),
                                source_lang |-> req[w].source_lang,
                                target_lang |-> req[w].target_lang,
                                model |-> local[w].model_name])
                 /\ UNCHANGED <<local, pre_i, pre_log>>
            ELSE hf_except(w, "translate")
    /\ UNCHANGED <<config, caches, model_files, load_count, fetch_count, nreq>>

\* translate_batch_endpoint: translate_batch(request.texts, model, tokenizer)
\* on the pair load_model returned; used records the handle the engine got
hf_translate_batch(w) ==
    /\ service = "hf"
    /\ pc[w] = "acquired"
    /\ req[w].kind = "batch"
    /\ CanRun(w)
    /\ \E texts \in BodiesOf("batch"), ok \in BOOLEAN :
         /\ req' = [req EXCEPT ![w].texts = texts]
         /\ IF ok
            THEN LET translations == translate_batch(texts, local[w].handle)
                 IN  /\ Respond(w, [status |-> 200,
                                    translations |-> translations,
                                    source_lang |-> req[w].source_lang,
                                    target_lang |-> req[w].target_lang,
                                    model |-> local[w].model_name,
                                    count |-> Len(translations)])
                     /\ local' = [local EXCEPT ![w].used = local[w].handle]
                     /\ UNCHANGED <<pre_i, pre_log>>
            ELSE hf_except(w, "translate")
    /\ UNCHANGED <<config, caches, model_files, load_count, fetch_count, nreq>>

\* (variant: the listing leaves out the targets of the multilingual model)
hf_language_pairs_mapping_only ==
    { [source |-> split(k)[1], target |-> split(k)[2], model |-> MODEL_MAPPING[k]] :
        k \in { key \in DOMAIN MODEL_MAPPING : Len(split(key)) = 2 } }

\* hf get_languages: one LanguagePair per key of MODEL_MAPPING that splits
\* into two parts, then one per multilingual target (the listing is a list;
\* its members are kept, their order is not)
hf_language_pairs ==
    { [source |-> split(k)[1], target |-> split(k)[2], model |-> MODEL_MAPPING[k]] :
        k \in { key \in DOMAIN MODEL_MAPPING : Len(split(key)) = 2 } }
    \cup { [source |-> <<"en">>, target |-> t,
            model |-> MODEL_MAPPING[<<"en", "-", "mul">>]] : t \in MULTILINGUAL_TARGETS }

hf_get_languages(w) ==
    /\ service = "hf"
    /\ \E r \in RequestsOf("languages") : Accept(w, r)
    /\ Respond(w, [status |-> 200, pairs |-> hf_language_pairs])
    /\ UNCHANGED <<config, caches, model_files, local, pre_i, pre_log, load_count,
                   fetch_count>>

\* (variant: readiness answers without looking at the cache)
hf_readiness_always_ready(w) ==
    /\ service = "hf"
    /\ \E r \in RequestsOf("readyz") : Accept(w, r)
    /\ Respond(w, [status |-> 200, body |-> "ready"])
    /\ UNCHANGED local
    /\ UNCHANGED <<config, caches, model_files, pre_i, pre_log, load_count,
                   fetch_count>>

\* readiness, up to the call of load_model
hf_readiness(w) ==
    /\ service = "hf"
    /\ \E r \in RequestsOf("readyz") : Accept(w, r)
    /\ IF Cardinality(DOMAIN loaded_models) > 0
       THEN /\ Respond(w, [status |-> 200, body |-> "ready"])
            /\ UNCHANGED local
       ELSE LET model_name == Get(MODEL_MAPPING, <<"en", "-", "hi">>)
            IN  IF model_name # None
                THEN /\ local' = [local EXCEPT ![w].model_name = model_name]
                     /\ pc' = [pc EXCEPT ![w] = "lm_check"]
                     /\ UNCHANGED resp
                ELSE /\ Respond(w, [status |-> 503])
                     /\ UNCHANGED local
    /\ UNCHANGED <<config, caches, model_files, pre_i, pre_log, load_count,
                   fetch_count>>

\* readiness: load_model returned
hf_readiness_loaded(w) ==
    /\ service = "hf"
    /\ pc[w] = "acquired"
    /\ req[w].kind = "readyz"
    /\ CanRun(w)
    /\ Respond(w, [status |-> 200, body |-> "ready"])
    /\ UNCHANGED <<config, caches, model_files, req, local, pre_i, pre_log,
                   load_count, fetch_count, nreq>>

\* --------------------------------------------- bergamot: download_model
\* download_model returned result (a directory, or None) to its caller;
\* error is what it logged on the way (None: nothing)
download_return(p, error, result) ==
    /\ local' = [local EXCEPT ![p].error = error, ![p].result = result,
                              ![p].leaving = <<>>]
    /\ IF req[p].kind = "preload"
       THEN preload_next(IF result = NoDir THEN "failed" ELSE "downloaded")
       ELSE /\ pc' = [pc EXCEPT ![p] = "responded"]
            /\ UNCHANGED <<pre_i, pre_log>>

\* an exception leaves download_model: the lifespan has no try around the
\* call, so startup ends with the exception and the service never serves;
\* a background task ends with it, after the response has gone out
download_raise(p, error) ==
    /\ local' = [local EXCEPT ![p].error = error]
    /\ pc' = [pc EXCEPT ![p] = IF req[p].kind = "preload" THEN "raised"
                                ELSE "responded"]
    /\ UNCHANGED <<pre_i, pre_log>>

\* control leaves the body of "async with aiohttp.ClientSession()" with
\* result to return (or with the exception logged as error): the exits of
\* the response and of the session are awaited first.  Whether such an exit
\* gives up the event loop (it waits for the connection to close) or returns
\* at once depends on the aiohttp the build installs; leaving holds
\* <<error, result>> while the call waits there
dl_leave(p, error, result) ==
    \E waits \in BOOLEAN :
        IF waits
        THEN /\ pc' = [pc EXCEPT ![p] = "dl_exit"]
             /\ local' = [local EXCEPT ![p].leaving = <<error, result>>]
             /\ UNCHANGED <<pre_i, pre_log>>
        ELSE download_return(p, error, result)

\* (variant: the model file is fetched whether or not it is on disk)
dl_start_always_fetches(p) ==
    /\ service = "bergamot"
    /\ pc[p] = "dl_start"
    /\ CanRun(p)
    /\ IF ~ in_registry(req[p].source_lang, req[p].target_lang)
       THEN download_return(p, None, NoDir)
       ELSE IF fmt_pair_key(req[p].source_lang, req[p].target_lang) \in blocked_dirs
       THEN download_raise(p, "mkdir")
       ELSE /\ pc' = [pc EXCEPT ![p] = "dl_get"]
            /\ local' = [local EXCEPT ![p].result = NoDir]
            /\ UNCHANGED <<pre_i, pre_log>>
    /\ UNCHANGED <<config, caches, model_files, req, resp, load_count,
                   fetch_count, nreq>>

\* download_model up to the first await: registry test, mkdir (outside the
\* try: its exception leaves download_model), exists test
dl_start(p) ==
    /\ service = "bergamot"
    /\ pc[p] = "dl_start"
    /\ CanRun(p)
    /\ LET model_dir == fmt_pair_key(req[p].source_lang, req[p].target_lang)
       IN  IF ~ in_registry(req[p].source_lang, req[p].target_lang)
           THEN download_return(p, None, NoDir)
           ELSE IF model_dir \in blocked_dirs
           THEN download_raise(p, "mkdir")
           ELSE IF model_dir \in model_files
           THEN download_return(p, None, model_dir)
           ELSE /\ pc' = [pc EXCEPT ![p] = "dl_get"]
                /\ local' = [local EXCEPT ![p].result = NoDir]
                /\ UNCHANGED <<pre_i, pre_log>>
    /\ UNCHANGED <<config, caches, model_files, req, resp, load_count,
                   fetch_count, nreq>>

\* async with session.get(url): a connection error, or a response status;
\* both the exception and "return None" of the else branch leave through
\* the exits of the async with blocks
dl_get(p) ==
    /\ service = "bergamot"
    /\ pc[p] = "dl_get"
    /\ CanRun(p)
    /\ LET model_dir == fmt_pair_key(req[p].source_lang, req[p].target_lang)
       IN  fetch_count' = Put(fetch_count, model_dir, Count(fetch_count, model_dir) + 1)
    /\ \E outcome \in {"error", "200", "404"} :
         IF outcome = "200"
         THEN /\ pc' = [pc EXCEPT ![p] = "dl_read"]
              /\ UNCHANGED <<local, pre_i, pre_log>>
         ELSE dl_leave(p, outcome, NoDir)
    /\ UNCHANGED <<config, caches, model_files, req, resp, load_count, nreq>>

\* dl_read with model_file.write_bytes ahead of gzip.decompress: the bytes
\* are on disk when the decompression raises
dl_read_writes_before_decompress(p) ==
    /\ service = "bergamot"
    /\ pc[p] = "dl_read"
    /\ CanRun(p)
    /\ LET model_dir == fmt_pair_key(req[p].source_lang, req[p].target_lang)
       IN  \E outcome \in {"read_error", "bad_gzip", "write_error", "ok"} :
             /\ model_files' = IF outcome = "read_error" THEN model_files
                               ELSE model_files \cup {model_dir}
             /\ dl_leave(p, IF outcome = "ok" THEN None ELSE outcome,
                         IF outcome = "ok" THEN model_dir ELSE NoDir)
    /\ UNCHANGED <<config, caches, req, resp, load_count, fetch_count, nreq>>

\* content = await response.read(); gzip.decompress; model_file.write_bytes.
\* Each may raise towards the except clause, which returns None; write_bytes
\* opens model.bin and then writes: when the open raises (directory not
\* writable, no descriptor left) there is no file, when the write raises
\* (disk full, file size limit) the truncated file is there
dl_read(p) ==
    /\ service = "bergamot"
    /\ pc[p] = "dl_read"
    /\ CanRun(p)
    /\ LET model_dir == fmt_pair_key(req[p].source_lang, req[p].target_lang)
           url == MODEL_REGISTRY[<<req[p].source_lang, req[p].target_lang>>]
       IN  \E outcome \in {"read_error", "bad_gzip", "write_error", "ok"} :
             IF outcome = "ok" \/ (outcome = "bad_gzip" /\ ~ endswith_gz(url))
             THEN /\ model_files' = model_files \cup {model_dir}
                  /\ dl_leave(p, None, model_dir)
             ELSE IF outcome = "write_error"
             THEN /\ \E created \in BOOLEAN :
                       model_files' = IF created THEN model_files \cup {model_dir}
                                      ELSE model_files
                  /\ dl_leave(p, outcome, NoDir)
             ELSE /\ UNCHANGED model_files
                  /\ dl_leave(p, outcome, NoDir)
    /\ UNCHANGED <<config, caches, req, resp, load_count, fetch_count, nreq>>

\* the exits of the two async with blocks have finished: download_model
\* returns what it left the body with (an exception goes through the except
\* clause, which returns None)
dl_exit(p) ==
    /\ service = "bergamot"
    /\ pc[p] = "dl_exit"
    /\ CanRun(p)
    /\ download_return(p, local[p].leaving[1], local[p].leaving[2])
    /\ UNCHANGED <<config, caches, model_files, req, resp, load_count,
                   fetch_count, nreq>>

\* bergamot lifespan: MODEL_CACHE_DIR.mkdir(parents=True, exist_ok=True),
\* whose exception ends startup
bg_lifespan_mkdir ==
    /\ service = "bergamot"
    /\ pc[LIFESPAN] = "startup"
    /\ CanRun(LIFESPAN)
    /\ pc' = [pc EXCEPT ![LIFESPAN] = IF MODEL_CACHE_DIR \in blocked_dirs
                                      THEN "raised" ELSE "pre_loop"]
    /\ UNCHANGED <<config, caches, model_files, req, local, resp, pre_i, pre_log,
                   load_count, fetch_count, nreq>>

\* bergamot lifespan: one turn of "for pair in preload_pairs", up to the call
\* of download_model; after the last token the lifespan yields (the locals
\* of the download_model call before are gone)
bg_lifespan_loop ==
    /\ service = "bergamot"
    /\ pc[LIFESPAN] = "pre_loop"
    /\ CanRun(LIFESPAN)
    /\ IF pre_i > Len(PRELOAD_MODELS)
       THEN /\ pc' = [pc EXCEPT ![LIFESPAN] = "yielded"]
            /\ UNCHANGED <<req, pre_i, pre_log>>
       ELSE LET pair == strip(PRELOAD_MODELS[pre_i])
                st == split1(pair)
            IN  IF pair # <<>> /\ has_dash(pair) /\ in_registry(st[1], st[2])
                THEN /\ req' = [req EXCEPT ![LIFESPAN] =
                                  [kind |-> "preload", source_lang |-> st[1],
                                   target_lang |-> st[2], texts |-> <<>>,
                                   cancelled_at |-> None]]
                     /\ pc' = [pc EXCEPT ![LIFESPAN] = "dl_start"]
                     /\ UNCHANGED <<pre_i, pre_log>>
                ELSE /\ preload_next("skipped")
                     /\ UNCHANGED req
    /\ local' = [local EXCEPT ![LIFESPAN] = NoLocal]
    /\ UNCHANGED <<config, caches, model_files, resp, load_count,
                   fetch_count, nreq>>

\* ---------------------------------------------- bergamot: get_translator
\* (variant: the cache test is left out, every call builds a translator)
gt_check_always_misses(w) ==
    /\ service = "bergamot"
    /\ pc[w] = "gt_check"
    /\ CanRun(w)
    /\ LET pair_key == fmt_pair_key(req[w].source_lang, req[w].target_lang)
       IN  /\ load_count' = Put(load_count, pair_key, Count(load_count, pair_key) + 1)
           /\ local' = [local EXCEPT ![w].pair_key = pair_key,
                                     ![w].miss = TRUE,
                                     ![w].ord = Count(load_count, pair_key) + 1,
                                     ![w].acquires = @ + 1]
           /\ pc' = [pc EXCEPT ![w] = "gt_store"]
    /\ UNCHANGED <<config, caches, model_files, req, resp, pre_i, pre_log,
                   fetch_count, nreq>>

\* pair_key = f"{s}-{t}"; if pair_key in loaded_translators: return it
gt_check(w) ==
    /\ service = "bergamot"
    /\ pc[w] = "gt_check"
    /\ CanRun(w)
    /\ LET pair_key == fmt_pair_key(req[w].source_lang, req[w].target_lang)
       IN  IF pair_key \in DOMAIN loaded_translators
           THEN /\ local' = [local EXCEPT ![w].pair_key = pair_key,
                                          ![w].handle = loaded_translators[pair_key],
                                          ![w].acquires = @ + 1]
                /\ pc' = [pc EXCEPT ![w] = "acquired"]
                /\ UNCHANGED load_count
           ELSE /\ load_count' = Put(load_count, pair_key, Count(load_count, pair_key) + 1)
                /\ local' = [local EXCEPT ![w].pair_key = pair_key,
                                          ![w].miss = TRUE,
                                          ![w].ord = Count(load_count, pair_key) + 1,
                                          ![w].acquires = @ + 1]
                /\ pc' = [pc EXCEPT ![w] = "gt_store"]
    /\ UNCHANGED <<config, caches, model_files, req, resp, pre_i, pre_log,
                   fetch_count, nreq>>

\* (variant: the store is given up when the client has gone away)
gt_store_unless_cancelled(w) ==
    /\ service = "bergamot"
    /\ pc[w] = "gt_store"
    /\ CanRun(w)
    /\ IF req[w].cancelled_at # None
       THEN /\ Respond(w, [status |-> 499])
            /\ UNCHANGED loaded_translators
       ELSE /\ loaded_translators' = Put(loaded_translators, local[w].pair_key,
                                         new_handle(local[w].pair_key, local[w].ord))
            /\ pc' = [pc EXCEPT ![w] = "gt_return"]
            /\ UNCHANGED resp
    /\ UNCHANGED <<config, loaded_models, model_files, req, local, pre_i,
                   pre_log, load_count, fetch_count, nreq>>

\* loaded_translators[pair_key] = {...}: a new translator object
gt_store(w) ==
    /\ service = "bergamot"
    /\ pc[w] = "gt_store"
    /\ CanRun(w)
    /\ loaded_translators' = Put(loaded_translators, local[w].pair_key,
                                 new_handle(local[w].pair_key, local[w].ord))
    /\ pc' = [pc EXCEPT ![w] = "gt_return"]
    /\ UNCHANGED <<config, loaded_models, model_files, req, local, resp, pre_i,
                   pre_log, load_count, fetch_count, nreq>>

\* return loaded_translators[pair_key]
gt_return(w) ==
    /\ service = "bergamot"
    /\ pc[w] = "gt_return"
    /\ CanRun(w)
    /\ local' = [local EXCEPT ![w].handle = loaded_translators[local[w].pair_key]]
    /\ pc' = [pc EXCEPT ![w] = "acquired"]
    /\ UNCHANGED <<config, caches, model_files, req, resp, pre_i, pre_log,
                   load_count, fetch_count, nreq>>

\* ------------------------------------------- bergamot: request handlers
\* (variant: the ctranslate2 probe is tested before the bergamot probe)
bg_translate_one_ctranslate2_first(text, source_lang, target_lang) ==
    IF CTRANSLATE2_AVAILABLE
    THEN << translate_with_ctranslate2(text, source_lang, target_lang), "ctranslate2" >>
    ELSE IF BERGAMOT_AVAILABLE
    THEN << translate_with_bergamot(text, source_lang, target_lang), "bergamot" >>
    ELSE << <<"[">> \o source_lang \o <<"->">> \o target_lang \o <<"]", " ", text>>,
            "placeholder" >>

\* the engine branch taken for one text: <<translated, engine>>
bg_translate_one(text, source_lang, target_lang) ==
    IF BERGAMOT_AVAILABLE
    THEN << translate_with_bergamot(text, source_lang, target_lang), "bergamot" >>
    ELSE IF CTRANSLATE2_AVAILABLE
    THEN << translate_with_ctranslate2(text, source_lang, target_lang), "ctranslate2" >>
    ELSE << <<"[">> \o source_lang \o <<"->">> \o target_lang \o <<"]", " ", text>>,
            "placeholder" >>

\* translate_batch: "for text in request.texts: ... translations.append"
bg_batch_loop(texts, source_lang, target_lang) ==
    [ translations |-> [ i \in 1..Len(texts) |->
                           bg_translate_one(texts[i], source_lang, target_lang)[1] ],
      engine |-> IF texts = <<>> THEN "placeholder"
                 ELSE bg_translate_one(texts[Len(texts)], source_lang, target_lang)[2] ]

\* (variant: the translator is acquired before the registry is consulted)
bg_check_pair_acquires_first(w) ==
    /\ service = "bergamot"
    /\ \E kind \in {"translate", "batch"} : \E r \in RequestsOf(kind) :
         /\ Accept(w, r)
         /\ pc' = [pc EXCEPT ![w] = "gt_check"]
         /\ UNCHANGED resp
    /\ UNCHANGED <<config, caches, model_files, local, pre_i, pre_log,
                   load_count, fetch_count>>

\* translate / translate_batch: pair not in MODEL_REGISTRY gives 400
bg_check_pair(w) ==
    /\ service = "bergamot"
    /\ \E kind \in {"translate", "batch"} : \E r \in RequestsOf(kind) :
         /\ Accept(w, r)
         /\ IF ~ in_registry(r.source_lang, r.target_lang)
            THEN Respond(w, [status |-> 400])
            ELSE /\ pc' = [pc EXCEPT ![w] = "gt_check"]
                 /\ UNCHANGED resp
    /\ UNCHANGED <<config, caches, model_files, local, pre_i, pre_log,
                   load_count, fetch_count>>

\* translate: the engine branch and the response
bg_translate(w) ==
    /\ service = "bergamot"
    /\ pc[w] = "acquired"
    /\ req[w].kind = "translate"
    /\ CanRun(w)
    /\ \E texts \in BodiesOf("translate") :
         /\ req' = [req EXCEPT ![w].texts = texts]
         /\ LET r == bg_translate_one(texts[1], req[w].source_lang, req[w].target_lang)
            IN  Respond(w, [status |-> 200,
                            translated_text |-> r[1],
                            source_lang |-> req[w].source_lang,
                            target_lang |-> req[w].target_lang,
                            engine |-> r[2]])
    /\ UNCHANGED <<config, caches, model_files, local, pre_i, pre_log,
                   load_count, fetch_count, nreq>>

\* translate_batch: the loop over the texts and the response; the result of
\* get_translator was bound to no name and the engine functions are given
\* the text and the two codes, so the engine gets no handle (used stays
\* NoHandle)
bg_translate_batch(w) ==
    /\ service = "bergamot"
    /\ pc[w] = "acquired"
    /\ req[w].kind = "batch"
    /\ CanRun(w)
    /\ \E texts \in BodiesOf("batch") :
         /\ req' = [req EXCEPT ![w].texts = texts]
         /\ LET r == bg_batch_loop(texts, req[w].source_lang, req[w].target_lang)
            IN  Respond(w, [status |-> 200,
                            translations |-> r.translations,
                            source_lang |-> req[w].source_lang,
                            target_lang |-> req[w].target_lang,
                            engine |-> r.engine,
                            count |-> Len(r.translations)])
    /\ local' = [local EXCEPT ![w].used = NoHandle]
    /\ UNCHANGED <<config, caches, model_files, pre_i, pre_log,
                   load_count, fetch_count, nreq>>

\* health_check: the engine named from the two import probes
health_engine ==
    IF BERGAMOT_AVAILABLE THEN "bergamot"
    ELSE IF CTRANSLATE2_AVAILABLE THEN "ctranslate2" ELSE "placeholder"

bg_health_check(w) ==
    /\ service = "bergamot"
    /\ \E r \in RequestsOf("health") : Accept(w, r)
    /\ Respond(w, [status |-> 200, body |-> "healthy", engine |-> health_engine,
                   loaded_models |-> Cardinality(DOMAIN loaded_translators),
                   available_pairs |-> Cardinality(DOMAIN MODEL_REGISTRY)])
    /\ UNCHANGED <<config, caches, model_files, local, pre_i, pre_log, load_count,
                   fetch_count>>

\* bergamot get_languages: one LanguagePair per key of MODEL_REGISTRY
bg_language_pairs ==
    { [source |-> k[1], target |-> k[2]] : k \in DOMAIN MODEL_REGISTRY }

bg_get_languages(w) ==
    /\ service = "bergamot"
    /\ \E r \in RequestsOf("languages") : Accept(w, r)
    /\ Respond(w, [status |-> 200, pairs |-> bg_language_pairs])
    /\ UNCHANGED <<config, caches, model_files, local, pre_i, pre_log, load_count,
                   fetch_count>>

\* download_model_endpoint: 400, or the response and the background task
bg_download_endpoint(w) ==
    /\ service = "bergamot"
    /\ \E r \in RequestsOf("download") :
         /\ Accept(w, r)
         /\ IF ~ in_registry(r.source_lang, r.target_lang)
            THEN Respond(w, [status |-> 400])
            ELSE /\ resp' = [resp EXCEPT ![w] =
                               [status |-> 200, message |-> "Download started"]]
                 /\ pc' = [pc EXCEPT ![w] = "dl_start"]
    /\ UNCHANGED <<config, caches, model_files, local, pre_i, pre_log,
                   load_count, fetch_count>>

\* ---------------------------------------------------------- specification
LifespanStep ==
    \/ hf_lifespan_loop
    \/ hf_lifespan_loaded
    \/ bg_lifespan_mkdir
    \/ bg_lifespan_loop
    \/ lm_check(LIFESPAN)
    \/ lm_load(LIFESPAN)
    \/ dl_start(LIFESPAN)
    \/ dl_get(LIFESPAN)
    \/ dl_read(LIFESPAN)
    \/ dl_exit(LIFESPAN)

Step(w) ==
    \/ batch_validation_error(w)
    \/ hf_get_languages(w)
    \/ bg_health_check(w)
    \/ bg_get_languages(w)
    \/ hf_resolve(w)
    \/ hf_readiness(w)
    \/ lm_check(w)
    \/ lm_load(w)
    \/ hf_translate(w)
    \/ hf_translate_batch(w)
    \/ hf_readiness_loaded(w)
    \/ bg_check_pair(w)
    \/ bg_download_endpoint(w)
    \/ gt_check(w)
    \/ gt_store(w)
    \/ gt_return(w)
    \/ bg_translate(w)
    \/ bg_translate_batch(w)
    \/ dl_start(w)
    \/ dl_get(w)
    \/ dl_read(w)
    \/ dl_exit(w)

Next ==
    \/ LifespanStep
    \/ \E w \in Workers : Step(w)
    \/ \E w \in Workers : Close(w)

Spec == Init /\ [][Next]_vars

\* one client at a time: the lifespan, then requests served one after the
\* other (what a handler computes for its own request, whatever ran before)
SeqNext ==
    \/ LifespanStep
    \/ Step(1)
    \/ Close(1)

SeqSpec == Init /\ [][SeqNext]_vars

\* one client at a time that may give up its request before the answer; a
\* handler that is inside a blocking call (from_pretrained, a dictionary
\* store) comes back from it
CancelNext ==
    \/ SeqNext
    \/ request_cancelled(1)

CancelSpec == Init /\ [][CancelNext]_vars

FairCancelSpec == CancelSpec /\ WF_vars(Step(1))

\* startup alone, over every preload list: the server accepts no request
\* before the lifespan has yielded
StartupSpec == StartupInit /\ [][LifespanStep]_vars

\* the lifespan is one coroutine that the server awaits before it serves:
\* each of its steps (a blocking load, an http fetch with the client's
\* default timeout) returns or raises, so the lifespan keeps moving
FairStartupSpec == StartupSpec /\ WF_vars(LifespanStep)

\* ================================================================ claims
\* p is inside a load: past the cache-miss check, before the cache write
InLoad(p) == pc[p] \in {"lm_load", "gt_store"}

\* the identifier the acquire call of p is about
Requested(p) ==
    IF service = "hf" THEN local[p].model_name
    ELSE fmt_pair_key(req[p].source_lang, req[p].target_lang)

\* C1: for every identifier at most one load is in progress at any time,
\* however the requests of the callers interleave on the event loop.
C1_AtMostOneLoadPerIdentifier ==
    \A p \in Procs : \A q \in Procs \ {p} :
        (InLoad(p) /\ InLoad(q)) => Requested(p) # Requested(q)

\* C1 witness: a load is in progress while the handler of another request is
\* in flight, suspended at an await.
C1_Witness ==
    \E p \in Workers : \E q \in Workers \ {p} :
        /\ InLoad(p)
        /\ pc[q] \in {"dl_start", "dl_get", "dl_read", "dl_exit"}

\* p is inside an acquire call (load_model / get_translator)
InAcquire(p) == pc[p] \in {"lm_check", "lm_load", "gt_check", "gt_store", "gt_return"}

\* p's acquire call started on an empty cache entry and is loading or has
\* returned what it loaded
MissedAndLoads(p) ==
    /\ pc[p] \in {"lm_load", "gt_store", "gt_return", "acquired"}
    /\ local[p].miss

\* C2 as written: of the acquire calls for one identifier that start while the
\* cache has no entry for it, the load runs once in total: a call that found
\* no entry is the only load of its identifier there has been.
C2_LoadRunsOnceInTotal ==
    \A p \in Procs : MissedAndLoads(p) => Count(load_count, Requested(p)) = 1

\* C2 as amended: acquire calls never overlap; a cached handle is the one of
\* the last load started for its identifier (each earlier load failed and
\* none started later); and every acquire call that has returned holds the
\* very handle the cache holds.
C2_AcquiresInTurnShareTheCachedHandle ==
    /\ \A p \in Procs : \A q \in Procs \ {p} : ~ (InAcquire(p) /\ InAcquire(q))
    /\ \A m \in DOMAIN Cache : Cache[m] = new_handle(m, Count(load_count, m))
    /\ \A p \in Procs :
         pc[p] = "acquired" =>
            /\ Requested(p) \in DOMAIN Cache
            /\ local[p].handle = Cache[Requested(p)]

\* C2 witness: a second acquire call that started while the cache had no
\* entry (the first load had failed) has run a load of its own and returned
\* the handle now cached.
C2_Witness ==
    \E p \in Workers :
        /\ pc[p] = "acquired" /\ local[p].miss
        /\ Count(load_count, Requested(p)) = 2
        /\ local[p].handle = Cache[Requested(p)]

\* C3: once the cache maps an identifier to a handle, no step removes the
\* entry or replaces the handle.
C3_CacheEntriesNeverChange ==
    [][ \A m \in DOMAIN Cache : m \in DOMAIN Cache' /\ Cache'[m] = Cache[m] ]_vars

\* C3 witness: a request has loaded and published a second identifier while
\* the entry of an earlier identifier is in the cache.
C3_Witness ==
    \E p \in Workers : \E m \in DOMAIN Cache :
        /\ pc[p] = "acquired" /\ local[p].miss
        /\ Requested(p) # m
        /\ Requested(p) \in DOMAIN Cache

\* p's load raises in this step
LoadFails(p) == pc[p] = "lm_load" /\ pc'[p] \notin {"lm_load", "acquired"}

\* p runs the cache test of its acquire call in this step
Checks(p) == pc[p] \in {"lm_check", "gt_check"} /\ pc'[p] # pc[p]

\* C4: when a load of an identifier fails, the cache has no entry for that
\* identifier afterwards and every other entry is as it was; and an acquire
\* that finds no entry, after a failure as well, starts a load.
C4_FailedLoadLeavesNoEntry ==
    [][ \A p \in Procs :
          /\ LoadFails(p) =>
                /\ Requested(p) \notin DOMAIN Cache'
                /\ Cache' = Cache
          /\ (Checks(p) /\ Requested(p) \notin DOMAIN Cache) =>
                /\ InLoad(p)'
                /\ Count(load_count', Requested(p))
                       = Count(load_count, Requested(p)) + 1 ]_vars

\* C4 witness: after a failed load of an identifier, with another entry in
\* the cache, the next acquire of that identifier is running the load again.
C4_Witness ==
    \E p \in Workers :
        /\ pc[p] = "lm_load"
        /\ Count(load_count, Requested(p)) = 2
        /\ Requested(p) \notin DOMAIN Cache
        /\ DOMAIN Cache # {}

\* C5 as written: once an identifier is cached, the number of loads performed
\* for it is one.
C5_LoadCountStaysAtOne ==
    \A m \in DOMAIN Cache : Count(load_count, m) = 1

\* C5 as amended: while an identifier is cached, an acquire of it returns the
\* handle the cache holds without starting a load, and the number of loads
\* started for that identifier no longer changes.
C5_CachedIdentifierIsNotLoadedAgain ==
    [][ /\ \A m \in DOMAIN Cache : Count(load_count', m) = Count(load_count, m)
        /\ \A p \in Procs :
             (Checks(p) /\ Requested(p) \in DOMAIN Cache) =>
                 /\ pc'[p] = "acquired"
                 /\ local'[p].handle = Cache[Requested(p)]
                 /\ ~ local'[p].miss ]_vars

\* C5 witness: after a failed and a successful load of an identifier (two
\* loads), a later acquire has been served from the cache.
C5_Witness ==
    \E p \in Workers :
        /\ pc[p] = "acquired" /\ ~ local[p].miss
        /\ local[p].handle = Cache[Requested(p)]
        /\ Count(load_count, Requested(p)) = 2

\* C6: while a load of one identifier is in progress, a request for another
\* identifier can start: the server can hand it to an idle handler.
C6_OtherIdentifierNotBlocked ==
    \A p \in Workers : \A w \in Workers \ {p} :
        ( /\ pc[p] = "lm_load"
          /\ pc[w] = "idle"
          /\ nreq < MaxRequests )
        => ENABLED hf_resolve(w)

\* the answer resolution is to give, written from the registry alone: the
\* exact pair first, then the multilingual group, otherwise unsupported
Resolvable(source_lang, target_lang) ==
    IF fmt_pair_key(source_lang, target_lang) \in DOMAIN MODEL_MAPPING
    THEN MODEL_MAPPING[fmt_pair_key(source_lang, target_lang)]
    ELSE IF source_lang = <<"en">> /\ target_lang \in MULTILINGUAL_TARGETS
    THEN MODEL_MAPPING[<<"en", "-", "mul">>]
    ELSE None

\* every language code of the two registries, and one of neither
LangCodes ==
    { k[1] : k \in DOMAIN MODEL_MAPPING } \cup { k[3] : k \in DOMAIN MODEL_MAPPING }
    \cup { t[1] : t \in MULTILINGUAL_TARGETS } \cup {"cs", "et", "xx"}

\* C7: what a handler gets for its pair depends on the pair alone: the model
\* of the registry or the multilingual group, else unsupported (400),
\* whatever the cache holds; and get_model_name gives that answer for every
\* pair of language codes.  (A body refused with 422 reaches no handler.)
C7_ResolutionDependsOnPairOnly ==
    /\ \A w \in Workers :
         ( /\ pc[w] # "idle"
           /\ req[w].kind \in {"translate", "batch"}
           /\ resp[w].status # 422 ) =>
            IF service = "hf"
            THEN LET m == Resolvable(req[w].source_lang, req[w].target_lang)
                 IN  IF m = None
                     THEN pc[w] = "responded" /\ resp[w].status = 400
                     ELSE local[w].model_name = m /\ resp[w].status # 400
            ELSE (resp[w].status = 400) <=>
                     (<<req[w].source_lang, req[w].target_lang>> \notin DOMAIN MODEL_REGISTRY)
    /\ (pc[LIFESPAN] = "pre_loop" /\ pre_i = 1) =>
         \A s \in LangCodes : \A t \in LangCodes :
             get_model_name(<<s>>, <<t>>) = Resolvable(<<s>>, <<t>>)

\* C7 witness: with a model already cached, a multilingual pair has been
\* resolved to the shared model and a pair outside the registry was refused.
C7_Witness ==
    /\ service = "hf"
    /\ DOMAIN loaded_models # {}
    /\ \E w \in Workers :
         \/ /\ req[w].target_lang = <<"ta">>
            /\ local[w].model_name = "Helsinki-NLP/opus-mt-en-mul"
            /\ pc[w] = "acquired"
         \/ /\ req[w].source_lang = <<"xx">> /\ resp[w].status = 400

\* what the service makes of one text of a request
TranslationOf(w, text) ==
    IF service = "hf" THEN translate_text(text, local[w].handle)
    ELSE bg_translate_one(text, req[w].source_lang, req[w].target_lang)[1]

\* C8: a batch response carries one translation per input text, in input
\* order, and its count is the number of inputs.
C8_BatchKeepsLengthAndOrder ==
    \A w \in Workers :
        (pc[w] = "responded" /\ req[w].kind = "batch" /\ resp[w].status = 200) =>
            /\ Len(resp[w].translations) = Len(req[w].texts)
            /\ resp[w].count = Len(req[w].texts)
            /\ \A i \in 1..Len(req[w].texts) :
                 resp[w].translations[i] = TranslationOf(w, req[w].texts[i])

\* C8 witness: a batch of two different texts has been answered.
C8_Witness ==
    \E w \in Workers :
        /\ pc[w] = "responded" /\ req[w].kind = "batch" /\ resp[w].status = 200
        /\ Len(req[w].texts) = 2
        /\ req[w].texts[1] # req[w].texts[2]
        /\ resp[w].translations[1] # resp[w].translations[2]

\* the lifespan has yielded: the service is serving
Serving == pc[LIFESPAN] = "yielded"

\* token tok names a pair the service can preload
Preloadable(tok) ==
    LET pair == strip(tok)
    IN  IF service = "hf"
        THEN /\ Len(split(pair)) = 2
             /\ Resolvable(split(pair)[1], split(pair)[2]) # None
        ELSE /\ has_dash(pair)
             /\ <<split1(pair)[1], split1(pair)[2]>> \in DOMAIN MODEL_REGISTRY

\* C9: startup always reaches the serving state, whichever loads or
\* downloads fail, and by then every preloadable pair of the list has been
\* attempted, also those listed after a pair that failed.
C9_StartupFinishesAndAttemptsEveryPair ==
    /\ <>Serving
    /\ [](Serving =>
            /\ Len(pre_log) = Len(PRELOAD_MODELS)
            /\ \A i \in 1..Len(PRELOAD_MODELS) :
                 Preloadable(PRELOAD_MODELS[i]) => pre_log[i] # "skipped")

\* the cache key of a preloadable token
PreloadKey(tok) ==
    LET pair == strip(tok)
    IN  IF service = "hf"
        THEN Resolvable(split(pair)[1], split(pair)[2])
        ELSE fmt_pair_key(split1(pair)[1], split1(pair)[2])

\* C10: when startup is over, the cache holds an entry for every valid pair
\* of the preload list whose preload succeeded, and for nothing else.
C10_ValidPairsLoadedAfterStartup ==
    Serving =>
        /\ \A i \in 1..Len(PRELOAD_MODELS) :
             (Preloadable(PRELOAD_MODELS[i]) /\ pre_log[i] \in {"loaded", "downloaded"})
                 => PreloadKey(PRELOAD_MODELS[i]) \in DOMAIN Cache
        /\ \A k \in DOMAIN Cache :
             \E i \in 1..Len(PRELOAD_MODELS) :
                 Preloadable(PRELOAD_MODELS[i]) /\ PreloadKey(PRELOAD_MODELS[i]) = k

\* the engine of the process: the highest-ranked one its import probes found
ActiveEngine ==
    IF BERGAMOT_AVAILABLE THEN "bergamot"
    ELSE IF CTRANSLATE2_AVAILABLE THEN "ctranslate2"
    ELSE "placeholder"

\* C11: the import probes never change after process start, and every
\* translate, batch and health response of the process names the
\* highest-ranked engine that was available at start.
C11_EngineFixedAtStart ==
    /\ [][ /\ BERGAMOT_AVAILABLE' = BERGAMOT_AVAILABLE
           /\ CTRANSLATE2_AVAILABLE' = CTRANSLATE2_AVAILABLE ]_vars
    /\ [](\A w \in Workers :
            ( /\ service = "bergamot"
              /\ pc[w] = "responded"
              /\ req[w].kind \in {"translate", "batch", "health"}
              /\ resp[w].status = 200 )
            => resp[w].engine = ActiveEngine)

\* C11 witness: a process without bergamot but with ctranslate2 has answered
\* a batch of two texts and names ctranslate2.
C11_Witness ==
    /\ service = "bergamot"
    /\ ~ BERGAMOT_AVAILABLE /\ CTRANSLATE2_AVAILABLE
    /\ \E w \in Workers :
         /\ pc[w] = "responded" /\ req[w].kind = "batch" /\ resp[w].status = 200
         /\ Len(req[w].texts) = 2
         /\ resp[w].engine = "ctranslate2"

\* the service has a model for the pair of w's request
Supported(w) ==
    IF service = "hf"
    THEN Resolvable(req[w].source_lang, req[w].target_lang) # None
    ELSE <<req[w].source_lang, req[w].target_lang>> \in DOMAIN MODEL_REGISTRY

\* C12: a translate or batch request that reached its handler is answered
\* 400 when its pair is unsupported and 500 when its pair is supported and
\* the load or the translation raised; it is answered 200 only when the pair
\* is supported and nothing raised.
C12_FailuresAreReported ==
    \A w \in Workers :
        ( /\ pc[w] = "responded"
          /\ req[w].kind \in {"translate", "batch"}
          /\ resp[w].status # 422 )
        => /\ resp[w].status \in {200, 400, 500}
           /\ (~ Supported(w)) => resp[w].status = 400
           /\ (Supported(w) /\ local[w].error # None) => resp[w].status = 500
           /\ (resp[w].status = 200) => (Supported(w) /\ local[w].error = None)

\* C12 witness: a request for a supported pair whose load raised has been
\* answered 500.
C12_Witness ==
    \E w \in Workers :
        /\ pc[w] = "responded" /\ req[w].kind = "translate"
        /\ Supported(w) /\ local[w].error = "load"
        /\ resp[w].status = 500

\* w's translation raises in this step
TranslationFails(w) ==
    pc[w] = "acquired" /\ pc'[w] = "responded" /\ local'[w].error = "translate"

\* C13: a translation that fails on a handle the cache holds changes nothing
\* in the cache and starts no load; and an acquire of a cached identifier,
\* such as the next request for it, gets the cached handle without a load.
C13_TranslationFailureKeepsCache ==
    [][ /\ \A w \in Workers :
             ( /\ TranslationFails(w)
               /\ Requested(w) \in DOMAIN Cache
               /\ Cache[Requested(w)] = local[w].handle )
             => /\ Cache' = Cache
                /\ load_count' = load_count
        /\ \A p \in Procs :
             (Checks(p) /\ Requested(p) \in DOMAIN Cache)
             => /\ pc'[p] = "acquired"
                /\ local'[p].handle = Cache[Requested(p)]
                /\ load_count' = load_count ]_vars

\* C13 witness: a request served from the cache failed in translation and
\* the identifier is still cached with the handle the request used.
C13_Witness ==
    \E w \in Workers :
        /\ pc[w] = "responded" /\ resp[w].status = 500
        /\ local[w].error = "translate" /\ ~ local[w].miss
        /\ Requested(w) \in DOMAIN Cache
        /\ Cache[Requested(w)] = local[w].handle

\* the pairs a languages listing names
ListedPairs(listing) == { <<l.source, l.target>> : l \in listing }

\* C14: the languages listing names exactly the pairs that resolve to a
\* model, and in the hf service shows for each the model resolution returns.
C14_ListingIsTheResolvablePairs ==
    \A w \in Workers :
        (pc[w] = "responded" /\ req[w].kind = "languages") =>
            /\ \A s \in LangCodes : \A t \in LangCodes :
                 (<< <<s>>, <<t>> >> \in ListedPairs(resp[w].pairs)) <=>
                     IF service = "hf" THEN get_model_name(<<s>>, <<t>>) # None
                     ELSE in_registry(<<s>>, <<t>>)
            /\ \A l \in resp[w].pairs :
                 /\ \E s \in LangCodes : l.source = <<s>>
                 /\ \E t \in LangCodes : l.target = <<t>>
                 /\ service = "hf" => l.model = get_model_name(l.source, l.target)

\* C14 witness: the hf listing has been sent and names a target of the
\* multilingual model with the shared model.
C14_Witness ==
    \E w \in Workers :
        /\ service = "hf"
        /\ pc[w] = "responded" /\ req[w].kind = "languages"
        /\ [source |-> <<"en">>, target |-> <<"ta">>,
            model |-> "Helsinki-NLP/opus-mt-en-mul"] \in resp[w].pairs

\* C15: a batch body is refused as a validation error exactly when it has no
\* text or more than 100 texts; every body of 1 to 100 texts is accepted.
C15_BatchOfOneToHundredAccepted ==
    \A w \in Workers :
        ( /\ pc[w] = "responded"
          /\ req[w].kind = "batch"
          /\ resp[w].status \in {200, 422} )
        => ( (resp[w].status = 422) <=>
                 (Len(req[w].texts) < 1 \/ Len(req[w].texts) > 100) )

\* the handler of w's translate or batch request has resolved the pair
Resolved(w) ==
    /\ service = "hf"
    /\ pc[w] # "idle"
    /\ req[w].kind \in {"translate", "batch"}
    /\ resp[w].status # 422

\* the exact-pair entry of the registry for w's pair, or None
ExactEntry(w) ==
    Get(MODEL_MAPPING, fmt_pair_key(req[w].source_lang, req[w].target_lang))

\* the elements of a sequence
Range(seq) == { seq[i] : i \in 1..Len(seq) }

\* C16 as written: resolution returns the exact-pair entry when there is
\* one, and tests the multilingual rule only when the exact-pair lookup
\* found nothing.
C16_GroupingOnlyAfterExactMiss ==
    \A w \in Workers :
        Resolved(w) =>
            /\ ExactEntry(w) # None => local[w].model_name = ExactEntry(w)
            /\ "multilingual" \in
                   Range(get_model_name_tests(req[w].source_lang, req[w].target_lang))
               => ExactEntry(w) = None

\* C16 as amended: resolution returns the exact-pair entry when there is
\* one; it tests the multilingual rule first and makes the exact-pair lookup
\* only when the rule does not apply, which gives the same answers because
\* no exact-pair key has source "en" and a multilingual target.
C16_ExactEntryReturnedRuleTestedFirst ==
    /\ \A w \in Workers :
         Resolved(w) =>
            LET tests == get_model_name_tests(req[w].source_lang, req[w].target_lang)
                grouped == /\ req[w].source_lang = <<"en">>
                           /\ req[w].target_lang \in MULTILINGUAL_TARGETS
            IN  /\ ExactEntry(w) # None => local[w].model_name = ExactEntry(w)
                /\ tests[1] = "multilingual"
                /\ ("exact" \in Range(tests)) <=> ~ grouped
                /\ grouped => local[w].model_name = MODEL_MAPPING[<<"en", "-", "mul">>]
    /\ \A t \in MULTILINGUAL_TARGETS :
         fmt_pair_key(<<"en">>, t) \notin DOMAIN MODEL_MAPPING

\* C16 witness: a request for a pair with an exact entry has been resolved to
\* that entry, after the multilingual rule was tested.
C16_Witness ==
    \E w \in Workers :
        /\ Resolved(w) /\ pc[w] = "acquired"
        /\ ExactEntry(w) = "Helsinki-NLP/opus-mt-en-es"
        /\ local[w].model_name = ExactEntry(w)
        /\ get_model_name_tests(req[w].source_lang, req[w].target_lang)
               = <<"multilingual", "exact">>

\* C17: the cache holds an entry only for an identifier whose artifact has
\* been obtained: in bergamot-service the model file of the pair is on disk,
\* in huggingface-mt-service the handle comes from a load that was started
\* and ran to its end.
C17_PublishedOnlyAfterArtifact ==
    /\ service = "bergamot" =>
         \A k \in DOMAIN loaded_translators : k \in model_files
    /\ service = "hf" =>
         \A m \in DOMAIN loaded_models :
             /\ loaded_models[m][1] = m
             /\ loaded_models[m][2] \in 1..Count(load_count, m)

\* the model identifiers of the registry of the running service
RegistryIdentifiers ==
    IF service = "hf"
    THEN { MODEL_MAPPING[k] : k \in DOMAIN MODEL_MAPPING }
    ELSE { fmt_pair_key(k[1], k[2]) : k \in DOMAIN MODEL_REGISTRY }

\* C18: every key of the cache is a model identifier of the registry, so the
\* cache never has more entries than the registry has identifiers; and a
\* request whose pair resolves to an identifier that is already cached, by
\* whatever pair it was loaded, gets the cached handle and starts no load.
C18_CacheKeyedByIdentifier ==
    /\ [](/\ DOMAIN Cache \subseteq RegistryIdentifiers
          /\ Cardinality(DOMAIN Cache) <= Cardinality(RegistryIdentifiers))
    /\ [][ \A w \in Workers :
             ( /\ service = "hf"
               /\ req[w].kind \in {"translate", "batch"}
               /\ pc[w] = "lm_check" /\ pc'[w] # "lm_check"
               /\ get_model_name(req[w].source_lang, req[w].target_lang)
                      \in DOMAIN loaded_models )
             => /\ load_count' = load_count
                /\ pc'[w] = "acquired"
                /\ local'[w].handle =
                       loaded_models[get_model_name(req[w].source_lang,
                                                    req[w].target_lang)] ]_vars

\* C18 witness: the handle loaded for an en->ta request has been handed from
\* the cache to an en->bn request, with one load of the shared model.
C18_Witness ==
    \E v \in Workers : \E w \in Workers \ {v} :
        /\ service = "hf"
        /\ pc[v] = "responded" /\ req[v].target_lang = <<"ta">> /\ local[v].miss
        /\ resp[v].status = 200
        /\ pc[w] = "acquired" /\ req[w].target_lang = <<"bn">> /\ ~ local[w].miss
        /\ local[w].handle = local[v].handle
        /\ DOMAIN loaded_models = {"Helsinki-NLP/opus-mt-en-mul"}
        /\ Count(load_count, "Helsinki-NLP/opus-mt-en-mul") = 1

\* w's batch request has been answered with translations
BatchAnswered(w) ==
    pc[w] = "responded" /\ req[w].kind = "batch" /\ resp[w].status = 200

\* C19: a batch request makes one acquire call and the engine translates
\* the items of the batch with the handle that call returned.
C19_BatchTranslatedWithOneAcquiredHandle ==
    \A w \in Workers :
        BatchAnswered(w) =>
            /\ local[w].acquires = 1
            /\ local[w].handle # NoHandle
            /\ local[w].used = local[w].handle

\* the directory of the pair p's download_model call is about
ModelDir(p) == fmt_pair_key(req[p].source_lang, req[p].target_lang)

\* p's download_model call starts in this step with the model file on disk
StartsOnDisk(p) ==
    /\ pc[p] = "dl_start" /\ pc'[p] # "dl_start"
    /\ in_registry(req[p].source_lang, req[p].target_lang)
    /\ ModelDir(p) \in model_files

\* C20: a download_model call that finds the model file on disk makes no
\* fetch, leaves the files as they are and returns the directory; once the
\* file of a pair is on disk, later calls add no fetch for that pair and the
\* file stays.
C20_DownloadIdempotent ==
    [][ /\ \A p \in Procs :
             StartsOnDisk(p) =>
                /\ fetch_count' = fetch_count
                /\ model_files' = model_files
                /\ pc'[p] \notin {"dl_get", "dl_read"}
                /\ (p = LIFESPAN) => pre_log' = Append(pre_log, "downloaded")
        /\ \A d \in model_files :
             /\ d \in model_files'
             /\ Count(fetch_count', d) = Count(fetch_count, d) ]_vars

\* C20 witness: the file of en-es was downloaded at startup with one fetch,
\* and a later download call for en-es has returned without another fetch.
C20_Witness ==
    /\ service = "bergamot"
    /\ PRELOAD_MODELS = << <<"en", "-", "es">> >>
    /\ pre_log = <<"downloaded">>
    /\ \E w \in Workers :
         /\ pc[w] = "responded" /\ req[w].kind = "download"
         /\ resp[w].status = 200
         /\ ModelDir(w) = <<"en", "-", "es">>
         /\ ModelDir(w) \in model_files
         /\ Count(fetch_count, ModelDir(w)) = 1


\* ---------------------------------------------------------------------
\* C21  a failed fetch writes nothing and is tried again

\* the body of p's fetch ends in this step: the call waits at the exits of
\* its async with blocks or has returned
FetchEnds(p) == pc[p] \in {"dl_get", "dl_read"} /\ pc'[p] \notin {"dl_get", "dl_read"}

\* <<error, result>> the fetch of p ended with
Outcome(p) ==
    IF pc[p] = "dl_exit" THEN local[p].leaving
    ELSE <<local[p].error, local[p].result>>

\* p's download_model call returns in this step, after its fetch
Returns(p) ==
    /\ pc[p] \in {"dl_get", "dl_read", "dl_exit"}
    /\ pc'[p] \notin {"dl_get", "dl_read", "dl_exit"}

\* p's download_model call passes the registry test in this step and finds
\* no model file
StartsOffDisk(p) ==
    /\ pc[p] = "dl_start" /\ pc'[p] # "dl_start"
    /\ in_registry(req[p].source_lang, req[p].target_lang)
    /\ ModelDir(p) \notin model_files

\* what download_model logs when its fetch fails: the GET raised, the
\* status was not 200, the read raised, the decompression raised
FetchFailures == {"error", "404", "read_error", "bad_gzip"}

\* C21: a download_model call whose fetch fails (the GET raises or answers
\* another status than 200, the read raises, the decompression raises)
\* writes no model file and returns None, which the startup logs as a
\* failure; a call that returns the directory has written the file; and a
\* call that finds no model file where a fetch was made before goes on to
\* the GET, which is counted, however many fetches of that pair failed.
C21_FailedFetchWritesNothingAndIsRetried ==
    [][ \A p \in Procs :
          /\ (FetchEnds(p) /\ Outcome(p)'[1] \in FetchFailures) =>
                 /\ Outcome(p)'[2] = NoDir
                 /\ model_files' = model_files
                 /\ ModelDir(p) \notin model_files'
          /\ (FetchEnds(p) /\ Outcome(p)'[2] # NoDir) =>
                 /\ pc[p] = "dl_read"
                 /\ Outcome(p)'[2] = ModelDir(p)
                 /\ model_files' = model_files \cup {ModelDir(p)}
          /\ Returns(p) =>
                 /\ (pc[p] = "dl_exit") =>
                        /\ <<local'[p].error, local'[p].result>> = Outcome(p)
                        /\ model_files' = model_files
                 /\ (local'[p].error \in FetchFailures) =>
                        /\ local'[p].result = NoDir
                        /\ ModelDir(p) \notin model_files'
                        /\ (p = LIFESPAN) => pre_log' = Append(pre_log, "failed")
                 /\ (local'[p].result # NoDir) =>
                        /\ local'[p].result = ModelDir(p)
                        /\ ModelDir(p) \in model_files'
          /\ (StartsOffDisk(p) /\ Count(fetch_count, ModelDir(p)) > 0) =>
                 pc'[p] = "dl_get"
          /\ (pc[p] = "dl_get" /\ pc'[p] # "dl_get") =>
                 fetch_count' = Put(fetch_count, ModelDir(p),
                                    Count(fetch_count, ModelDir(p)) + 1) ]_vars

\* a /models/download call fetched a pair whose earlier fetch had failed,
\* and this time the file was written
C21_Witness ==
    \E w \in Workers :
        /\ req[w].kind = "download"
        /\ pc[w] = "responded"
        /\ local[w].result = ModelDir(w)
        /\ ModelDir(w) \in model_files
        /\ Count(fetch_count, ModelDir(w)) >= 2


\* ---------------------------------------------------------------------
\* C22  overlapping downloads of one pair

\* p is inside the fetch of its download_model call: the GET is issued or
\* the body is being read
Fetching(p) == pc[p] \in {"dl_get", "dl_read"}

\* C22: of the download_model calls for one pair that overlap while the
\* model file is absent, at most one is fetching; the others wait for it.
C22_OverlappingDownloadsFetchOnce ==
    \A p \in Procs : \A q \in Procs \ {p} :
        ~ ( /\ Fetching(p) /\ Fetching(q)
            /\ ModelDir(p) = ModelDir(q)
            /\ ModelDir(p) \notin model_files )


\* ---------------------------------------------------------------------
\* C24  a request for an unsupported pair changes nothing

\* w holds a translate, batch or /models/download request
PairRequest(w) == req[w].kind \in {"translate", "batch", "download"}

\* everything the service keeps between requests
ServiceState == <<loaded_models, loaded_translators, model_files, load_count,
                  fetch_count, pre_i, pre_log>>

\* C24: a translate, batch or /models/download request whose pair the
\* service has no model for is answered in the step that takes it (400, or
\* 422 when the batch body is refused first) without any acquire call, load
\* or download; the caches, the model files and the counts of loads and
\* fetches are the same after that step as before it, and the same again
\* when the exchange is over.
C24_UnsupportedPairChangesNothing ==
    [][ \A w \in Workers :
          /\ (pc[w] = "idle" /\ (PairRequest(w) /\ ~ Supported(w))') =>
                 /\ pc'[w] = "responded"
                 /\ resp'[w].status \in {400, 422}
                 /\ local'[w] = NoLocal
                 /\ ServiceState' = ServiceState
          /\ (pc[w] # "idle" /\ PairRequest(w) /\ ~ Supported(w)) =>
                 /\ pc[w] = "responded"
                 /\ pc'[w] = "idle"
                 /\ local[w] = NoLocal
                 /\ ServiceState' = ServiceState ]_vars

\* a request for an unsupported pair was answered 400 by a service whose
\* cache holds a model
C24_Witness ==
    \E w \in Workers :
        /\ PairRequest(w) /\ ~ Supported(w)
        /\ pc[w] = "responded"
        /\ resp[w].status = 400
        /\ DOMAIN Cache # {}


\* ---------------------------------------------------------------------
\* C25  readiness of the Hugging Face service

\* w's readiness probe has been answered; answered "ready"
ProbeAnswered(w) == service = "hf" /\ req[w].kind = "readyz" /\ pc[w] = "responded"
AnsweredReady(w) == ProbeAnswered(w) /\ resp[w].status = 200

\* C25: a readiness probe of the Hugging Face service is answered either
\* "ready" (200) or 503; it is answered "ready" only while the cache holds a
\* model, and 503 only after its own load of the en-hi model raised; a probe
\* that loaded a model itself found the cache empty and loaded en-hi; and
\* from the moment a probe has been answered "ready", every probe that is
\* answered is answered "ready".
C25_ReadyOnlyWithModelAndStable ==
    /\ [](\A w \in Workers :
            /\ ProbeAnswered(w) => resp[w].status \in {200, 503}
            /\ AnsweredReady(w) =>
                   /\ DOMAIN loaded_models # {}
                   /\ local[w].miss =>
                          /\ local[w].model_name = MODEL_MAPPING[<<"en", "-", "hi">>]
                          /\ local[w].model_name \in DOMAIN loaded_models
            /\ (ProbeAnswered(w) /\ resp[w].status = 503) =>
                   /\ local[w].error = "load"
                   /\ local[w].model_name = MODEL_MAPPING[<<"en", "-", "hi">>])
    /\ []((\E w \in Workers : AnsweredReady(w)) =>
             [](\A v \in Workers : ProbeAnswered(v) => AnsweredReady(v)))

\* a probe found the cache empty, loaded the en-hi model itself and answered
\* "ready"
C25_Witness ==
    \E w \in Workers :
        /\ AnsweredReady(w)
        /\ local[w].miss
        /\ DOMAIN loaded_models = {MODEL_MAPPING[<<"en", "-", "hi">>]}


\* the same for probes that overlap: a probe is answered "ready" only while
\* the cache holds a model, the cache never becomes empty again, and a probe
\* that starts while the cache holds a model is answered "ready" in its
\* first step. (A probe that started on an empty cache is still answered by
\* the outcome of its own load.)
C25_ProbeAfterReadyIsReady ==
    [][ /\ \A w \in Workers : AnsweredReady(w) => DOMAIN loaded_models # {}
        /\ DOMAIN loaded_models \subseteq DOMAIN loaded_models'
        /\ \A w \in Workers :
             ( /\ service = "hf" /\ pc[w] = "idle" /\ req'[w].kind = "readyz"
               /\ DOMAIN loaded_models # {} ) => AnsweredReady(w)' ]_vars


\* ---------------------------------------------------------------------
\* C23  a started load outlives the request that triggered it

\* the client of w's request has given up
Cancelled(w) == req[w].cancelled_at # None

\* the load of w has ended by publishing the handle it built
Published(w) ==
    /\ pc[w] \in {"acquired", "gt_return"}
    /\ Requested(w) \in DOMAIN Cache
    /\ Cache[Requested(w)] = new_handle(Requested(w), local[w].ord)

\* the load of w has ended by raising, which the handler answered
LoadFailed(w) ==
    /\ pc[w] = "responded"
    /\ resp[w].status \in {500, 503}
    /\ local[w].error = "load"

\* C23: the step in which a client gives up its request moves no handler
\* and changes nothing of the service; a load whose request has been given
\* up ends as any other load, by publishing the handle it built or by the
\* failure of the load, which leaves the cache as it is; a caller that has
\* acquired holds the handle of the cache, whoever loaded it; and a load
\* whose request has been given up does end.
C23_StartedLoadRunsToCompletion ==
    /\ [][ \A w \in Workers :
             /\ (~ Cancelled(w) /\ Cancelled(w)') =>
                    /\ pc' = pc /\ local' = local /\ resp' = resp
                    /\ ServiceState' = ServiceState
             /\ (Cancelled(w) /\ InLoad(w) /\ pc'[w] # pc[w]) =>
                    \/ Published(w)'
                    \/ LoadFailed(w)' /\ Cache' = Cache
             /\ (pc[w] # "acquired" /\ pc'[w] = "acquired") =>
                    local'[w].handle = Cache'[Requested(w)'] ]_vars
    /\ \A w \in Workers :
          (Cancelled(w) /\ InLoad(w)) ~> (Published(w) \/ LoadFailed(w))

\* the client gave up while the load was running, and the load has published
C23_Witness ==
    \E w \in Workers :
        /\ req[w].cancelled_at \in {"lm_load", "gt_store"}
        /\ Published(w)

====
